---- MODULE Spec2Model ----
(***************************************************************************)
(* A model of ipv4-heatmap-rs: the Hilbert distance-to-point transform     *)
(* (src/src/hilbert.rs), the address-to-pixel projection, the painting of  *)
(* addresses and CIDR ranges into the buffer and the construction and      *)
(* rendering of a Heatmap (src/src/lib.rs, src/src/wasm.rs).               *)
(***************************************************************************)
EXTENDS Integers, Sequences, FiniteSets, TLC

(***************************************************************************)
(* Machine integers.  TLC's integers are 32-bit signed, so a u32 or u64    *)
(* of the program, which can reach 2^31, is held as the pair <<hi, lo>> of *)
(* its value divided by 2^16 and its low 16 bits (values below 2^47, which *)
(* covers every address, block size and sum of two of them).  i32 values   *)
(* (weights, cells) and small quantities (coordinates, orders, pixel       *)
(* distances) are plain integers.                                          *)
(***************************************************************************)

\* i32::MAX and i32::MIN, the range of a weight and of a buffer cell.
I32Max == 2147483647

I32Min == -I32Max - 1

\* The pair of hi * 2^16 + lo, for any lo >= 0.
Norm(hi, lo) == <<hi + (lo \div 65536), lo % 65536>>

\* A non-negative integer below 2^31 as a u64.
U64(v) == Norm(0, v)

\* A u64 known to be below 2^31 as an integer.
ToInt(n) == n[1] * 65536 + n[2]

\* u32::from(Ipv4Addr): the four octets, most significant first.
u32_from_octets(o) == <<o[1] * 256 + o[2], o[3] * 256 + o[4]>>

\* `as u32` of a u64: the low 32 bits.
as_u32(n) == <<n[1] % 65536, n[2]>>

\* n >> k, 0 <= k <= 16.
ShrShort(n, k) ==
    <<n[1] \div (2 ^ k), (n[1] % (2 ^ k)) * (2 ^ (16 - k)) + (n[2] \div (2 ^ k))>>

\* n >> k on a u64, 0 <= k <= 32.
Shr(n, k) ==
    IF k <= 16 THEN ShrShort(n, k) ELSE ShrShort(ShrShort(n, 16), k - 16)

\* n << k on a u64, 0 <= k <= 32, for a result below 2^47.
Shl(n, k) ==
    IF k < 16 THEN Norm(n[1] * (2 ^ k), n[2] * (2 ^ k))
    ELSE LET m == <<n[1] * 65536 + n[2], 0>>
         IN  Norm(m[1] * (2 ^ (k - 16)), 0)

\* a + b on u64, for a sum below 2^47.
Add(a, b) == Norm(a[1] + b[1], a[2] + b[2])

\* a - b on u64, for a >= b.
Sub(a, b) ==
    IF a[2] >= b[2]
    THEN <<a[1] - b[1], a[2] - b[2]>>
    ELSE <<a[1] - b[1] - 1, a[2] + 65536 - b[2]>>

Lt(a, b) == a[1] < b[1] \/ (a[1] = b[1] /\ a[2] < b[2])

Le(a, b) == ~Lt(b, a)

\* u64::max and u64::min.
Max(a, b) == IF Lt(a, b) THEN b ELSE a

Min(a, b) == IF Lt(b, a) THEN b ELSE a

\* The integer part of v * n / 2^b, for an integer 0 <= v < 2^31, a u64
\* n <= 2^b and b <= 32.  v * n can reach 2^63, so it is formed from the four
\* bytes v_j of v: v_j * n * 2^(8j) / 2^b is split into its integer part q_j
\* and its remainder r_j / 2^b, and the result is the q_j plus the integer
\* part of the sum of the remainders.
MulShr(v, n, b) ==
    LET term(j) == LET vj == (v \div (256 ^ j)) % 256
                   IN  Norm(vj * n[1], vj * n[2])
        q(j) == IF 8 * j <= b
                THEN Shr(term(j), b - 8 * j)
                ELSE Shl(term(j), 8 * j - b)
        r(j) == IF 8 * j <= b
                THEN Shl(Sub(term(j), Shl(q(j), b - 8 * j)), 8 * j)
                ELSE U64(0)
    IN  ToInt(Add(Add(Add(q(0), q(1)), Add(q(2), q(3))),
                  Shr(Add(Add(r(0), r(1)), Add(r(2), r(3))), b)))

Abs(v) == IF v < 0 THEN -v ELSE v

\* w + 2^31 as a u64, for an i32 w.
Offset(w) == Norm(32768 + (w \div 65536), w % 65536)

\* a - b as a u64, for i32 a >= b: the f64 difference of two i32 values,
\* which is exact.
Diff(a, b) == Sub(Offset(a), Offset(b))

(***************************************************************************)
(* hilbert.rs: hilbert_d2xy                                                *)
(***************************************************************************)

\* hilbert_rot with the reflection off by one (s - x for s - 1 - x).
hilbert_rot_offbyone(x, y, rx, ry, s) ==
    IF ry = 0
    THEN IF rx = 1 THEN <<s - y, s - x>> ELSE <<y, x>>
    ELSE <<x, y>>

\* hilbert_rot without the swap of x and y.
hilbert_rot_noswap(x, y, rx, ry, s) ==
    IF ry = 0
    THEN IF rx = 1 THEN <<s - 1 - x, s - 1 - y>> ELSE <<x, y>>
    ELSE <<x, y>>

\* The `if ry == 0 { ... }` block: reflect within the s x s square when
\* rx = 1, then swap x and y.
hilbert_rot(x, y, rx, ry, s) ==
    IF ry = 0
    THEN IF rx = 1 THEN <<s - 1 - y, s - 1 - x>> ELSE <<y, x>>
    ELSE <<x, y>>

\* hilbert_rx without the shift (1 & t for 1 & (t >> 1)).
hilbert_rx_noshift(t) == t % 2

\* hilbert_ry without the exclusive or (1 & t for 1 & (t ^ rx)).
hilbert_ry_noxor(t) == t % 2

\* One pass of the `while s < n` body: the quadrant bits (rx, ry) of t.
hilbert_rx(t) == (t \div 2) % 2

hilbert_ry(t) == ((t % 2) + hilbert_rx(t)) % 2

RECURSIVE hilbert_loop(_, _, _, _, _)
hilbert_loop(x, y, t, s, n) ==
    IF s < n
    THEN LET rx == hilbert_rx(t)
             ry == hilbert_ry(t)
             p  == hilbert_rot(x, y, rx, ry, s)
         IN  hilbert_loop(p[1] + s * rx, p[2] + s * ry, t \div 4, s * 2, n)
    ELSE <<x, y>>

\* hilbert_d2xy(d: u64, order: u32), for order < 31 and, when order > 0,
\* d < 2^31.  The result is always Some((x, y)).
hilbert_d2xy(d, order) ==
    IF order = 0 THEN <<0, 0>>
    ELSE hilbert_loop(0, 0, ToInt(d), 1, 2 ^ order)

(***************************************************************************)
(* Bounds of the model and the inputs it draws.                            *)
(***************************************************************************)

\* The largest curve order whose distances are all enumerated.
MaxOrder == 4

\* The largest number of input records one session ingests.
MaxRecords == 3

\* The longest text ingested.
MaxLines == 3

None == <<>>

Some(v) == <<v>>

\* The input records (address or range, weight) a session draws from.
\* A range is an Ipv4Net: an address and a prefix length.
InputAddresses ==
    { [kind |-> "address", addr |-> <<10, 0, 0, 0>>, prefix_len |-> 32, value |-> I32Max],
      [kind |-> "address", addr |-> <<192, 168, 1, 1>>, prefix_len |-> 32, value |-> -3],
      [kind |-> "address", addr |-> <<64, 0, 0, 0>>, prefix_len |-> 32, value |-> 0] }

InputRanges ==
    { [kind |-> "cidr", addr |-> <<8, 0, 0, 0>>, prefix_len |-> 5, value |-> -9],
      [kind |-> "cidr", addr |-> <<10, 0, 0, 0>>, prefix_len |-> 8, value |-> 9] }

NoRecord == [kind |-> "none", addr |-> <<0, 0, 0, 0>>, prefix_len |-> 32, value |-> 0]

\* The granularities a session is configured with: two the wasm entry
\* accepts or rejects by range, an odd one, and the coarsest ones.
BitsPerPixelValues == {24, 28, 29, 30, 32}

ValueModes == {"Categorical", "Raw", "Scaled"}

DomainTypes == {"Linear", "Logarithmic"}

\* The bounds and the values ScaleDomain is exercised on.
ScaleMinValues == {-2, 0, 3}

ScaleMaxValues == {-2, 0, 1, 4, 7}

ScaleValues == -4..9

\* The octet values the addresses projected at granularity 8 are built from.
ProjectOctets == {0, 63, 64, 128, 192, 255}

\* The explicit (min_value, max_value) pairs a session is configured with.
DomainBounds ==
    { <<None, None>>, <<Some(0), Some(1)>>, <<Some(5), Some(1)>>, <<Some(0), None>> }

(***************************************************************************)
(* State.                                                                  *)
(***************************************************************************)
VARIABLES
    c_order,    \* the curve order under enumeration
    c_d,        \* the distance last mapped
    c_pt,       \* hilbert_d2xy(c_d, c_order)
    c_prev,     \* hilbert_d2xy(c_d - 1, c_order) (c_pt itself when c_d = 0)
    c_image,    \* the points of the distances 0..c_d
    p_addr,     \* the address last projected, as four octets
    p_xy,       \* ip_to_xy(p_addr)
    s_new,      \* the outcome of ScaleDomain::new
    s_value,    \* the value last scaled
    s_result,   \* scale(s_value)
    s_prev,     \* scale(s_value - 1), None before the second value
    pc,         \* where the session is: "new", "ingest", "rendered", or
                \* stopped: "config_error", "render_error", "panic"
    entry,      \* "wasm": generate_heatmap; "lib": Heatmap::new called directly
    overflow_checks,  \* whether the build checks arithmetic overflow (debug)
    bits_per_pixel,   \* Heatmap fields
    value_mode,
    curve,
    accumulate,
    min_value,
    max_value,
    buffer,     \* buffer[y][x], rows and columns 0..side-1; <<>> before new
    records,    \* the number of input records ingested
    input,      \* the input records read so far, in order
    last_op,    \* the input record of the last paint operation
    writes,     \* the cell writes of the last paint operation, in order
    written,    \* the cell writes of the session so far, in order
    failure,    \* why the session stopped, "none" while it has not
    domain,     \* the ScaleDomain the render asked for, <<>> if none
    image,      \* the RGBA output, image[y][x]; <<>> while there is none
    text,       \* the lines process_input_from_reader has taken, in order
    error,      \* the error process_input_from_reader returned, None if none
    warnings,   \* the warnings logged so far, in order
    g_bpp,      \* the granularity whose grid is measured
    g_side,     \* image_size_for_bpp(g_bpp)
    g_rows,     \* the rows of the grid counted so far
    g_cover,    \* the addresses the pixels of these rows stand for
    z_bpp,      \* the bits_per_pixel of the Heatmap whose sizes are taken
    z_buffer,   \* <<buffer.len(), buffer[0].len()>>
    z_image,    \* <<width, height>> of the image create_image returned, None before
    z_y,        \* the rows get_rgba_data has gone through
    z_data,     \* the bytes get_rgba_data has pushed
    z_pc        \* "new", then "rgba" inside get_rgba_data, "returned" after it

curve_vars == <<c_order, c_d, c_pt, c_prev, c_image>>

project_vars == <<p_addr, p_xy>>

scale_vars == <<s_new, s_value, s_result, s_prev>>

config_vars ==
    <<entry, overflow_checks, bits_per_pixel, value_mode, curve, accumulate,
      min_value, max_value>>

reader_vars == <<text, error, warnings>>

session_vars ==
    <<pc, config_vars, buffer, records, input, last_op, writes, written,
      failure, domain, image, reader_vars>>

grid_vars == <<g_bpp, g_side, g_rows, g_cover>>

size_vars == <<z_bpp, z_buffer, z_image, z_y, z_data, z_pc>>

vars == <<curve_vars, project_vars, scale_vars, session_vars, grid_vars, size_vars>>

(***************************************************************************)
(* lib.rs: Heatmap                                                         *)
(***************************************************************************)

\* The mutation of image_size_for_bpp that does not halve the order.
image_size_for_bpp_no_halving(bpp) == 2 ^ (32 - bpp)

\* image_size_for_bpp, for bits_per_pixel <= 32.
image_size_for_bpp(bpp) == 2 ^ ((32 - bpp) \div 2)

\* The buffer Heatmap::new allocates: -1 in every cell in categorical mode,
\* 0 otherwise.
new_buffer(bpp, mode) ==
    LET init_value == IF mode = "Categorical" THEN -1 ELSE 0
        size == image_size_for_bpp(bpp)
    IN  [y \in 0..(size - 1) |-> [x \in 0..(size - 1) |-> init_value]]

\* Heatmap::ip_to_xy.  `ip >> shift` on a u32 overflows for shift >= 32: a
\* build with overflow checks panics, one without shifts by shift mod 32.
ip_to_xy(ip) ==
    LET hilbert_curve_order == (32 - bits_per_pixel) \div 2
        shift == bits_per_pixel
    IN  IF shift >= 32 /\ overflow_checks
        THEN [panic |-> "shift_overflow", xy |-> <<0, 0>>]
        ELSE [panic |-> "none",
              xy |-> hilbert_d2xy(Shr(ip, shift % 32), hilbert_curve_order)]

\* `+=` on an i32 cell: on overflow a build with overflow checks panics, one
\* without wraps modulo 2^32.
i32_add(a, b) ==
    IF b > 0 /\ a > I32Max - b
    THEN IF overflow_checks
         THEN [panic |-> "add_overflow", val |-> a]
         ELSE [panic |-> "none", val |-> ((a - I32Max) + (b - I32Max)) - 2]
    ELSE IF b < 0 /\ a < I32Min - b
    THEN IF overflow_checks
         THEN [panic |-> "add_overflow", val |-> a]
         ELSE [panic |-> "none", val |-> ((a + I32Max) + (b + I32Max)) + 2]
    ELSE [panic |-> "none", val |-> a + b]

\* Heatmap::paint_pixel on buffer buf.
paint_pixel(buf, x, y, value) ==
    IF ~(y \in DOMAIN buf /\ x \in DOMAIN buf[y])
    THEN [panic |-> "index_out_of_bounds", buffer |-> buf]
    ELSE IF accumulate
    THEN LET r == i32_add(buf[y][x], value)
         IN  IF r.panic # "none"
             THEN [panic |-> r.panic, buffer |-> buf]
             ELSE [panic |-> "none", buffer |-> [buf EXCEPT ![y][x] = r.val]]
    ELSE [panic |-> "none", buffer |-> [buf EXCEPT ![y][x] = value]]

\* scaled_address_value rounding toward minus infinity instead of toward zero.
scaled_address_value_floor(value) ==
    IF value < 0
    THEN -ToInt(Shr(U64(-value - 1), bits_per_pixel)) - 1
    ELSE ToInt(Shr(U64(value), bits_per_pixel))

\* (value as f64 / ips_per_pixel as f64) as i32, with ips_per_pixel =
\* 1u64 << bits_per_pixel: the quotient by a power of two is exact, and the
\* cast drops its fraction.  For value > i32::MIN.
scaled_address_value(value) ==
    LET mag == ToInt(Shr(U64(Abs(value)), bits_per_pixel))
    IN  IF value < 0 THEN -mag ELSE mag

\* (value as f64 * overlap_count as f64 / ips_per_pixel as f64) as i32.
\* The product is exact in f64 when it is below 2^53 or overlap_count is a
\* power of two, which every overlap of a CIDR block with a pixel is.
scaled_range_value(value, overlap_count) ==
    LET mag == MulShr(Abs(value), overlap_count, bits_per_pixel)
    IN  IF value < 0 THEN -mag ELSE mag

\* Heatmap::paint_address on buffer buf: the outcome, the buffer and the
\* cell writes made.
paint_address(buf, addr, value) ==
    LET paint_value ==
            IF value_mode = "Scaled" THEN scaled_address_value(value) ELSE value
        p == ip_to_xy(u32_from_octets(addr))
        r == paint_pixel(buf, p.xy[1], p.xy[2], paint_value)
    IN  IF p.panic # "none"
        THEN [panic |-> p.panic, buffer |-> buf, writes |-> <<>>]
        ELSE IF r.panic # "none"
        THEN [panic |-> r.panic, buffer |-> buf, writes |-> <<>>]
        ELSE [panic |-> "none", buffer |-> r.buffer,
              writes |-> <<[x |-> p.xy[1], y |-> p.xy[2], value |-> paint_value]>>]

\* Ipv4Net::network and Ipv4Net::broadcast as u64: the address with its host
\* bits cleared, and with them set.
cidr_network(cidr) ==
    LET host_bits == 32 - cidr.prefix_len
    IN  Shl(Shr(u32_from_octets(cidr.addr), host_bits), host_bits)

cidr_broadcast(cidr) ==
    LET host_bits == 32 - cidr.prefix_len
    IN  Add(cidr_network(cidr), Sub(Shl(U64(1), host_bits), U64(1)))

\* The body of `for pixel_d in first_pixel_d..=last_pixel_d`, from pixel_d
\* on, on the outcome st so far; a panic ends the loop.
RECURSIVE cidr_loop(_, _, _, _, _, _, _)
cidr_loop(st, pixel_d, last_pixel_d, first_ip, last_ip, ips_per_pixel, value) ==
    IF pixel_d > last_pixel_d \/ st.panic # "none"
    THEN st
    ELSE
      LET pixel_first_ip == Shl(U64(pixel_d), bits_per_pixel)
          pixel_last_ip == Sub(Add(pixel_first_ip, ips_per_pixel), U64(1))
          overlap_first == Max(first_ip, pixel_first_ip)
          overlap_last == Min(last_ip, pixel_last_ip)
          overlap_count == Add(Sub(overlap_last, overlap_first), U64(1))
          paint_value ==
              IF value_mode = "Scaled"
              THEN scaled_range_value(value, overlap_count)
              ELSE value
          p == ip_to_xy(as_u32(pixel_first_ip))
          r == paint_pixel(st.buffer, p.xy[1], p.xy[2], paint_value)
          next ==
              IF ~Le(overlap_first, overlap_last)
              THEN st
              ELSE IF p.panic # "none"
              THEN [st EXCEPT !.panic = p.panic]
              ELSE IF r.panic # "none"
              THEN [st EXCEPT !.panic = r.panic]
              ELSE [panic |-> "none", buffer |-> r.buffer,
                    writes |-> Append(st.writes,
                        [x |-> p.xy[1], y |-> p.xy[2], value |-> paint_value])]
      IN  cidr_loop(next, pixel_d + 1, last_pixel_d, first_ip, last_ip,
                    ips_per_pixel, value)

\* The pixels `for pixel_d in first_pixel_d..=last_pixel_d` goes through,
\* from pixel_d on: for each its distance, the outcome of the test
\* overlap_first <= overlap_last and, when it is true, overlap_count.
RECURSIVE cidr_overlaps(_, _, _, _)
cidr_overlaps(pixel_d, last_pixel_d, first_ip, last_ip) ==
    IF pixel_d > last_pixel_d
    THEN <<>>
    ELSE
      LET pixel_first_ip == Shl(U64(pixel_d), bits_per_pixel)
          pixel_last_ip ==
              Sub(Add(pixel_first_ip, Shl(U64(1), bits_per_pixel)), U64(1))
          overlap_first == Max(first_ip, pixel_first_ip)
          overlap_last == Min(last_ip, pixel_last_ip)
          overlaps == Le(overlap_first, overlap_last)
      IN  <<[pixel_d |-> pixel_d,
             overlaps |-> overlaps,
             overlap_count |-> IF overlaps
                               THEN Add(Sub(overlap_last, overlap_first), U64(1))
                               ELSE U64(0)]>>
          \o cidr_overlaps(pixel_d + 1, last_pixel_d, first_ip, last_ip)

\* Heatmap::paint_cidr_range on buffer buf.
paint_cidr_range(buf, cidr, value) ==
    LET ips_per_pixel == Shl(U64(1), bits_per_pixel)
        first_ip == cidr_network(cidr)
        last_ip == cidr_broadcast(cidr)
        first_pixel_d == ToInt(Shr(first_ip, bits_per_pixel))
        last_pixel_d == ToInt(Shr(last_ip, bits_per_pixel))
    IN  cidr_loop([panic |-> "none", buffer |-> buf, writes |-> <<>>],
                  first_pixel_d, last_pixel_d, first_ip, last_ip,
                  ips_per_pixel, value)

\* One record of the input applied to buffer buf.
paint_record(buf, rec) ==
    IF rec.kind = "address"
    THEN paint_address(buf, rec.addr, rec.value)
    ELSE paint_cidr_range(buf, rec, rec.value)

\* The loop of process_input_from_reader over the records recs, from the
\* outcome st: a panic ends it.
RECURSIVE process_records(_, _)
process_records(st, recs) ==
    IF recs = <<>> \/ st.panic # "none"
    THEN st
    ELSE LET r == paint_record(st.buffer, Head(recs))
         IN  process_records([panic |-> r.panic, buffer |-> r.buffer], Tail(recs))

\* buffer_min over the first row only.
buffer_min_first_row(buf) ==
    CHOOSE v \in {buf[0][x] : x \in DOMAIN buf[0]} :
        \A x \in DOMAIN buf[0] : v <= buf[0][x]

\* The minimum and the maximum over every cell of the buffer.
buffer_min(buf) ==
    CHOOSE v \in {buf[y][x] : y \in DOMAIN buf, x \in DOMAIN buf} :
        \A y \in DOMAIN buf, x \in DOMAIN buf : v <= buf[y][x]

buffer_max(buf) ==
    CHOOSE v \in {buf[y][x] : y \in DOMAIN buf, x \in DOMAIN buf} :
        \A y \in DOMAIN buf, x \in DOMAIN buf : v >= buf[y][x]

\* ScaleDomain::new failing only when max_value < min_value.
ScaleDomain_new_strict(domain_type, lo, hi) ==
    [ok |-> ~(hi < lo), domain_type |-> domain_type, min |-> lo, max |-> hi]

\* ScaleDomain::new: Err (ok = FALSE) when max_value <= min_value, else the
\* domain.
ScaleDomain_new(domain_type, lo, hi) ==
    [ok |-> ~(hi <= lo), domain_type |-> domain_type, min |-> lo, max |-> hi]

\* Heatmap::calculate_domain: the bounds, explicit or over the buffer, handed
\* to ScaleDomain::new.
calculate_domain(buf) ==
    LET lo == IF min_value # None THEN min_value[1] ELSE buffer_min(buf)
        hi == IF max_value # None THEN max_value[1] ELSE buffer_max(buf)
    IN  ScaleDomain_new(curve, lo, hi)

\* The f64 results of scale: 1.0, a quotient num / den, and a quotient of
\* logarithms ln(num) / ln(den), with num and den as u64.
One == [f |-> "one"]

Quot(num, den) == [f |-> "div", num |-> num, den |-> den]

LnQuot(num, den) == [f |-> "ln_div", num |-> num, den |-> den]

\* f64::ln on the integers 1..10, in ten-thousandths.
ln(n) == <<0, 6931, 10986, 13863, 16094, 17918, 19459, 20794, 21972, 23026>>[n]

\* The value of a scale result in ten-thousandths, rounded down, for
\* operands below 2^16 (logarithms: at most 10).
f64_value(r) ==
    IF r.f = "one" THEN 10000
    ELSE IF r.f = "div" THEN (ToInt(r.num) * 10000) \div ToInt(r.den)
    ELSE (ln(ToInt(r.num)) * 10000) \div ln(ToInt(r.den))

\* scale_linear taking the lower bound into the domain (value < min).
scale_linear_closed(d, value) ==
    IF value < d.min THEN None
    ELSE IF value >= d.max THEN Some(One)
    ELSE Some(Quot(Diff(value, d.min), Diff(d.max, d.min)))

\* scale_logarithmic without the + 1: ln(offset) / ln(range).
scale_logarithmic_no_offset(d, value) ==
    IF value <= d.min THEN None
    ELSE IF value >= d.max THEN Some(One)
    ELSE Some(LnQuot(Diff(value, d.min), Diff(d.max, d.min)))

\* ScaleDomain::scale_linear on an integral value.
scale_linear(d, value) ==
    IF value <= d.min THEN None
    ELSE IF value >= d.max THEN Some(One)
    ELSE Some(Quot(Diff(value, d.min), Diff(d.max, d.min)))

\* ScaleDomain::scale_logarithmic on an integral value.
scale_logarithmic(d, value) ==
    IF value <= d.min THEN None
    ELSE IF value >= d.max THEN Some(One)
    ELSE LET offset == Diff(value, d.min)
             range == Diff(d.max, d.min)
         IN  Some(LnQuot(Add(offset, U64(1)), Add(range, U64(1))))

\* ScaleDomain::scale.
scale(d, value) ==
    IF d.domain_type = "Linear"
    THEN scale_linear(d, value)
    ELSE scale_logarithmic(d, value)

\* The RGBA of one cell.  A transparent pixel is [0, 0, 0, 0]; an opaque one
\* has alpha 255 and the colour of a palette entry or of the gradient at a
\* scaled value.
Transparent == [alpha |-> 0, colour |-> <<"none">>]

Opaque(colour) == [alpha |-> 255, colour |-> colour]

\* CATEGORICAL_PALETTE.len()
PaletteLen == 8

\* categorical_pixel without the reduction modulo the palette length.
categorical_pixel_nomod(value) ==
    IF value < 0 THEN Transparent
    ELSE Opaque(<<"palette", value>>)

\* The categorical arm of get_rgba_data / create_image for one cell.
categorical_pixel(value) ==
    IF value < 0 THEN Transparent
    ELSE Opaque(<<"palette", value % PaletteLen>>)

\* The raw / scaled arm for one cell, under domain d.
continuous_pixel(d, value) ==
    LET scaled == scale(d, value)
    IN  IF scaled # None
        THEN Opaque(<<"gradient", scaled[1]>>)
        ELSE Transparent

\* get_rgba_data / create_image on buffer buf: the domain asked for, and the
\* image, <<>> when the domain cannot be built.
get_rgba_data(buf) ==
    IF value_mode = "Categorical"
    THEN [domain |-> None,
          image |-> [y \in DOMAIN buf |->
                        [x \in DOMAIN buf[y] |-> categorical_pixel(buf[y][x])]]]
    ELSE LET d == calculate_domain(buf)
         IN  [domain |-> Some(d),
              image |-> IF d.ok
                        THEN [y \in DOMAIN buf |->
                                 [x \in DOMAIN buf[y] |->
                                     continuous_pixel(d, buf[y][x])]]
                        ELSE <<>>]

\* generate_heatmap's validation of bits_per_pixel: at least 8, at most 24,
\* even.
wasm_bits_per_pixel_ok(bpp) == ~(bpp < 8) /\ ~(bpp > 24) /\ ~(bpp % 2 # 0)

(***************************************************************************)
(* The text of the input.  A line is the sequence of its characters; a     *)
(* token is a sequence of characters without separators.                   *)
(***************************************************************************)
\* The lines an input is made of, by their characters:
\*   "10.0.0.0 7": an address and a value
\*   "": an empty line
\*   " ,": separators only
\*   "10.0.0.0/8,9": a range and a value, separated by a comma
\*   "10.0.0/8 3": a range whose address lacks an octet
\*   "3232235777 -3": 192.168.1.1 as an integer, with a negative value
\*   "4294967296 5": an integer one above the largest address
\*   "10.0.0.256": an address whose last octet is too large
\*   "64.0.0.1,x": an address with an unparsable value
InputLines ==
    { <<"1", "0", ".", "0", ".", "0", ".", "0", " ", "7">>,
      <<>>,
      <<" ", ",">>,
      <<"1", "0", ".", "0", ".", "0", ".", "0", "/", "8", ",", "9">>,
      <<"1", "0", ".", "0", ".", "0", "/", "8", " ", "3">>,
      <<"3", "2", "3", "2", "2", "3", "5", "7", "7", "7", " ", "-", "3">>,
      <<"4", "2", "9", "4", "9", "6", "7", "2", "9", "6", " ", "5">>,
      <<"1", "0", ".", "0", ".", "0", ".", "2", "5", "6">>,
      <<"6", "4", ".", "0", ".", "0", ".", "1", ",", "x">> }

Digits == <<"0", "1", "2", "3", "4", "5", "6", "7", "8", "9">>

is_ascii_digit(c) == \E i \in DOMAIN Digits : Digits[i] = c

to_digit(c) == (CHOOSE i \in DOMAIN Digits : Digits[i] = c) - 1

Whitespace == {" ", "\t"}

all_ascii_digits(s) == \A i \in DOMAIN s : is_ascii_digit(s[i])

contains(s, c) == \E i \in DOMAIN s : s[i] = c

\* str::split on a predicate: the fields between the separators, the empty
\* ones included.
RECURSIVE split(_, _, _)
split(s, separators, field) ==
    IF s = <<>>
    THEN <<field>>
    ELSE IF Head(s) \in separators
         THEN <<field>> \o split(Tail(s), separators, <<>>)
         ELSE split(Tail(s), separators, Append(field, Head(s)))

\* The parts of a line: split on ',' or whitespace, trimmed, the empty
\* fields dropped.  A field holds no whitespace, so trim leaves it as it is.
line_parts(line) ==
    SelectSeq(split(line, {","} \cup Whitespace, <<>>), LAMBDA s : s # <<>>)

\* str::parse::<u32> on digits: None when the number does not fit 32 bits.
RECURSIVE parse_u32_digits(_, _)
parse_u32_digits(s, acc) ==
    IF s = <<>>
    THEN Some(acc)
    ELSE IF ~is_ascii_digit(Head(s))
         THEN None
         ELSE LET lo == acc[2] * 10 + to_digit(Head(s))
                  hi == acc[1] * 10 + (lo \div 65536)
              IN  IF hi >= 65536
                  THEN None
                  ELSE parse_u32_digits(Tail(s), <<hi, lo % 65536>>)

parse_u32(s) ==
    IF s = <<>>
    THEN None
    ELSE IF Head(s) = "+"
         THEN IF Tail(s) = <<>> THEN None ELSE parse_u32_digits(Tail(s), <<0, 0>>)
         ELSE parse_u32_digits(s, <<0, 0>>)

\* Ipv4Addr::from(u32): the four octets, most significant first.
Ipv4Addr_from_u32(ip) ==
    <<ip[1] \div 256, ip[1] % 256, ip[2] \div 256, ip[2] % 256>>

\* str::parse::<i32>: an optional sign, then digits; None when there is no
\* digit, a character is not a digit, or the number does not fit an i32.
\* A negative number is accumulated downwards, as the library does.
RECURSIVE parse_i32_digits(_, _, _)
parse_i32_digits(s, acc, negative) ==
    IF s = <<>>
    THEN Some(acc)
    ELSE IF ~is_ascii_digit(Head(s))
         THEN None
         ELSE LET d == to_digit(Head(s))
              IN  IF negative
                  THEN IF acc < (I32Min + d + 9) \div 10
                       THEN None
                       ELSE parse_i32_digits(Tail(s), acc * 10 - d, negative)
                  ELSE IF acc > (I32Max - d) \div 10
                       THEN None
                       ELSE parse_i32_digits(Tail(s), acc * 10 + d, negative)

parse_i32(s) ==
    IF s = <<>>
    THEN None
    ELSE IF Head(s) \in {"+", "-"}
         THEN IF Tail(s) = <<>>
              THEN None
              ELSE parse_i32_digits(Tail(s), 0, Head(s) = "-")
         ELSE parse_i32_digits(s, 0, FALSE)

unwrap_or(opt, default) == IF opt = None THEN default ELSE opt[1]

\* A decimal field of at most max_len digits and value at most limit,
\* without a leading zero.
parse_decimal(s, max_len, limit) ==
    IF s = <<>> \/ Len(s) > max_len \/ ~all_ascii_digits(s)
       \/ (Len(s) > 1 /\ Head(s) = "0")
    THEN None
    ELSE LET v == unwrap_or(parse_i32_digits(s, 0, FALSE), 0)
         IN  IF v > limit THEN None ELSE Some(v)

\* Ipv4Addr::from_str: four decimal octets separated by dots.
Ipv4Addr_from_str(s) ==
    LET f == split(s, {"."}, <<>>)
    IN  IF Len(f) # 4 \/ \E i \in DOMAIN f : parse_decimal(f[i], 3, 255) = None
        THEN None
        ELSE Some([i \in 1..4 |-> parse_decimal(f[i], 3, 255)[1]])

\* str::parse::<Ipv4Net>: an address, a slash and a prefix length of at
\* most 32.
Ipv4Net_from_str(s) ==
    LET f == split(s, {"/"}, <<>>)
    IN  IF Len(f) # 2
        THEN None
        ELSE LET addr == Ipv4Addr_from_str(f[1])
                 prefix_len == parse_decimal(f[2], 2, 32)
             IN  IF addr = None \/ prefix_len = None
                 THEN None
                 ELSE Some([addr |-> addr[1], prefix_len |-> prefix_len[1]])

\* The outcome of one iteration of the loop of process_input_from_reader:
\* what it did ("continue" without painting, "paint", or "return" with an
\* error), the record it painted, the buffer after it, and what it logged
\* or returned.
LineOutcome(flow, rec, r, warning, err) ==
    [flow |-> flow, record |-> rec, buffer |-> r.buffer, writes |-> r.writes,
     panic |-> r.panic, warning |-> warning, error |-> err]

NoWrites(buf) == [buffer |-> buf, writes |-> <<>>, panic |-> "none"]

\* The mutation of skip_malformed_range that returns the failure as an
\* error.
malformed_range_returns(buf, line_num, ip_str) ==
    LineOutcome("return", NoRecord, NoWrites(buf), None,
        Some([message |-> "Failed to parse CIDR on line",
              line |-> Some(line_num + 1), token |-> Some(ip_str)]))

\* The Err arm of the range parse: a warning with the 1-based line number
\* and the token, and continue.
skip_malformed_range(buf, line_num, ip_str) ==
    LineOutcome("continue", NoRecord, NoWrites(buf),
        Some([message |-> "Failed to parse CIDR on line",
              line |-> line_num + 1, token |-> ip_str]),
        None)

\* The body of the loop of process_input_from_reader on the line numbered
\* line_num (from 0), with the buffer buf.
process_line(buf, line_num, line) ==
    LET parts == line_parts(line)
    IN  IF parts = <<>>
        THEN LineOutcome("continue", NoRecord, NoWrites(buf), None, None)
        ELSE LET ip_str == parts[1]
                 value == IF Len(parts) > 1 THEN unwrap_or(parse_i32(parts[2]), 1) ELSE 1
             IN  IF contains(ip_str, "/")
                 THEN LET cidr == Ipv4Net_from_str(ip_str)
                      IN  IF cidr = None
                          THEN skip_malformed_range(buf, line_num, ip_str)
                          ELSE LET rec == [kind |-> "cidr", addr |-> cidr[1].addr,
                                           prefix_len |-> cidr[1].prefix_len,
                                           value |-> value]
                               IN  LineOutcome("paint", rec,
                                       paint_cidr_range(buf, rec, value), None, None)
                 ELSE LET addr == IF all_ascii_digits(ip_str)
                                  THEN LET ip == parse_u32(ip_str)
                                       IN  IF ip = None
                                           THEN None
                                           ELSE Some(Ipv4Addr_from_u32(ip[1]))
                                  ELSE Ipv4Addr_from_str(ip_str)
                          context == IF all_ascii_digits(ip_str)
                                     THEN [message |-> "Invalid IP as integer",
                                           line |-> None, token |-> None]
                                     ELSE [message |-> "Invalid IP address on line",
                                           line |-> Some(line_num + 1),
                                           token |-> Some(ip_str)]
                      IN  IF addr = None
                          THEN LineOutcome("return", NoRecord, NoWrites(buf), None,
                                   Some(context))
                          ELSE LET rec == [kind |-> "address", addr |-> addr[1],
                                           prefix_len |-> 32, value |-> value]
                               IN  LineOutcome("paint", rec,
                                       paint_address(buf, addr[1], value), None, None)

\* process_input_from_reader on the lines from number line_num on, from the
\* outcome st: an error or a panic ends the loop.
RECURSIVE process_input_from_reader(_, _, _)
process_input_from_reader(st, line_num, lines) ==
    IF lines = <<>> \/ st.panic # "none" \/ st.error # None
    THEN st
    ELSE LET o == process_line(st.buffer, line_num, Head(lines))
         IN  process_input_from_reader(
                 [buffer |-> o.buffer, panic |-> o.panic, error |-> o.error],
                 line_num + 1, Tail(lines))

(***************************************************************************)
(* The curve enumeration: every distance of [0, 4^order), in order.        *)
(***************************************************************************)
SizeIdle ==
    /\ z_bpp = 32
    /\ z_buffer = <<1, 1>>
    /\ z_image = None
    /\ z_y = 0
    /\ z_data = 0
    /\ z_pc = "idle"

GridIdle ==
    /\ g_bpp = 32
    /\ g_side = 1
    /\ g_rows = 0
    /\ g_cover = U64(0)

ReaderIdle ==
    /\ text = <<>>
    /\ error = None
    /\ warnings = <<>>

SessionIdle ==
    /\ pc = "idle"
    /\ entry = "lib"
    /\ overflow_checks = FALSE
    /\ bits_per_pixel = 32
    /\ value_mode = "Raw"
    /\ curve = "Linear"
    /\ accumulate = FALSE
    /\ min_value = None
    /\ max_value = None
    /\ buffer = <<>>
    /\ records = 0
    /\ input = <<>>
    /\ last_op = NoRecord
    /\ writes = <<>>
    /\ written = <<>>
    /\ failure = "none"
    /\ domain = None
    /\ image = <<>>
    /\ ReaderIdle

CurveIdle ==
    /\ c_order = 0
    /\ c_d = 0
    /\ c_pt = <<0, 0>>
    /\ c_prev = <<0, 0>>
    /\ c_image = {}

ProjectIdle ==
    /\ p_addr = <<0, 0, 0, 0>>
    /\ p_xy = <<0, 0>>

ScaleIdle ==
    /\ s_new = None
    /\ s_value = 0
    /\ s_result = None
    /\ s_prev = None

CurveInit ==
    /\ SizeIdle
    /\ GridIdle
    /\ ProjectIdle
    /\ ScaleIdle
    /\ c_order \in 0..MaxOrder
    /\ c_d = 0
    /\ c_pt = hilbert_d2xy(U64(0), c_order)
    /\ c_prev = c_pt
    /\ c_image = {c_pt}
    /\ SessionIdle

CurveStep ==
    /\ c_d + 1 < 4 ^ c_order
    /\ c_d' = c_d + 1
    /\ c_pt' = hilbert_d2xy(U64(c_d + 1), c_order)
    /\ c_prev' = c_pt
    /\ c_image' = c_image \cup {c_pt'}
    /\ UNCHANGED <<size_vars, grid_vars, c_order, project_vars, scale_vars, session_vars>>

SpecCurve == CurveInit /\ [][CurveStep]_vars

(***************************************************************************)
(* The address projection at granularity 8 (order 12, side 4096): ip_to_xy *)
(* on addresses that differ from the last one in one octet.                *)
(***************************************************************************)
ProjectInit ==
    /\ SizeIdle
    /\ GridIdle
    /\ CurveIdle
    /\ ScaleIdle
    /\ pc = "project"
    /\ entry = "lib"
    /\ overflow_checks \in BOOLEAN
    /\ bits_per_pixel = 8
    /\ value_mode = "Raw"
    /\ curve = "Linear"
    /\ accumulate = FALSE
    /\ min_value = None
    /\ max_value = None
    /\ buffer = <<>>
    /\ records = 0
    /\ input = <<>>
    /\ last_op = NoRecord
    /\ writes = <<>>
    /\ written = <<>>
    /\ failure = "none"
    /\ domain = None
    /\ image = <<>>
    /\ ReaderIdle
    /\ p_addr = <<0, 0, 0, 0>>
    /\ p_xy = ip_to_xy(u32_from_octets(p_addr)).xy

ProjectStep ==
    /\ pc = "project"
    /\ \E i \in 1..4, o \in ProjectOctets :
         /\ p_addr' = [p_addr EXCEPT ![i] = o]
         /\ p_xy' = ip_to_xy(u32_from_octets(p_addr')).xy
    /\ UNCHANGED <<size_vars, grid_vars, curve_vars, scale_vars, session_vars>>

SpecProject == ProjectInit /\ [][ProjectStep]_vars

(***************************************************************************)
(* scale.rs: a ScaleDomain is asked for, and when it is built, scale is     *)
(* applied to each value of ScaleValues in increasing order.               *)
(***************************************************************************)
ScaleInit ==
    /\ SizeIdle
    /\ GridIdle
    /\ CurveIdle
    /\ ProjectIdle
    /\ SessionIdle
    /\ \E t \in DomainTypes, lo \in ScaleMinValues, hi \in ScaleMaxValues :
         s_new = ScaleDomain_new(t, lo, hi)
    /\ s_value \in ScaleValues
    /\ \A v \in ScaleValues : s_value <= v
    /\ s_result = IF s_new.ok THEN scale(s_new, s_value) ELSE None
    /\ s_prev = None

ScaleStep ==
    /\ s_new # None
    /\ s_new.ok
    /\ s_value + 1 \in ScaleValues
    /\ s_value' = s_value + 1
    /\ s_result' = scale(s_new, s_value + 1)
    /\ s_prev' = s_result
    /\ UNCHANGED <<size_vars, grid_vars, s_new, curve_vars, project_vars, session_vars>>

SpecScale == ScaleInit /\ [][ScaleStep]_vars

(***************************************************************************)
(* A rendering session: construction, ingestion record by record, render.  *)
(***************************************************************************)
Init ==
    /\ SizeIdle
    /\ GridIdle
    /\ CurveIdle
    /\ ProjectIdle
    /\ ScaleIdle
    /\ pc = "new"
    /\ entry \in {"lib", "wasm"}
    /\ overflow_checks \in BOOLEAN
    /\ bits_per_pixel \in BitsPerPixelValues
    /\ value_mode \in ValueModes
    /\ accumulate \in BOOLEAN
    /\ \E c \in DomainTypes, b \in DomainBounds :
         \* a categorical session never reads the domain: one is enough
         /\ value_mode = "Categorical" => c = "Linear" /\ b = <<None, None>>
         /\ curve = c
         /\ min_value = b[1]
         /\ max_value = b[2]
    /\ buffer = <<>>
    /\ records = 0
    /\ input = <<>>
    /\ last_op = NoRecord
    /\ writes = <<>>
    /\ written = <<>>
    /\ failure = "none"
    /\ domain = None
    /\ image = <<>>
    /\ ReaderIdle

\* generate_heatmap returns Err for a bits_per_pixel it does not accept,
\* before any Heatmap exists.
RejectBitsPerPixel ==
    /\ pc = "new"
    /\ entry = "wasm"
    /\ ~wasm_bits_per_pixel_ok(bits_per_pixel)
    /\ pc' = "config_error"
    /\ failure' = "bits_per_pixel"
    /\ UNCHANGED <<size_vars, grid_vars, curve_vars, project_vars, scale_vars, config_vars, reader_vars, buffer, records,
                   input, last_op, writes, written, domain, image>>

\* Heatmap::new: called by generate_heatmap after its validation, or
\* directly by a user of the library.  It allocates the buffer and cannot
\* fail.
New ==
    /\ pc = "new"
    /\ entry = "wasm" => wasm_bits_per_pixel_ok(bits_per_pixel)
    /\ buffer' = new_buffer(bits_per_pixel, value_mode)
    /\ pc' = "ingest"
    /\ UNCHANGED <<size_vars, grid_vars, curve_vars, project_vars, scale_vars, config_vars, reader_vars, records, input,
                   last_op, writes, written, failure, domain, image>>

\* The effect of one paint operation with outcome r on the session.
Painted(rec, r) ==
    /\ buffer' = r.buffer
    /\ writes' = r.writes
    /\ written' = written \o r.writes
    /\ last_op' = rec
    /\ records' = records + 1
    /\ input' = Append(input, rec)
    /\ failure' = r.panic
    /\ pc' = IF r.panic = "none" THEN "ingest" ELSE "panic"
    /\ UNCHANGED <<size_vars, grid_vars, curve_vars, project_vars, scale_vars, config_vars, reader_vars, domain, image>>

\* Whether the input read so far holds record rec.  An input presents each
\* of its records once.
Presented(rec) == \E i \in 1..Len(input) : input[i] = rec

\* process_input_from_reader on a line holding an address: paint_address.
PaintAddress ==
    /\ pc = "ingest"
    /\ records < MaxRecords
    /\ \E rec \in InputAddresses :
         /\ ~Presented(rec)
         /\ Painted(rec, paint_address(buffer, rec.addr, rec.value))

\* process_input_from_reader on a line holding a range: paint_cidr_range.
PaintCidrRange ==
    /\ pc = "ingest"
    /\ records < MaxRecords
    /\ \E rec \in InputRanges :
         /\ ~Presented(rec)
         /\ Painted(rec, paint_cidr_range(buffer, rec, rec.value))

\* get_rgba_data / create_image: in raw and scaled mode the domain is
\* computed first and the render fails when it cannot be built.
Render ==
    /\ pc = "ingest"
    /\ LET r == get_rgba_data(buffer)
           ok == r.domain = None \/ r.domain[1].ok
       IN  /\ pc' = IF ok THEN "rendered" ELSE "render_error"
           /\ failure' = IF ok THEN "none" ELSE "domain"
           /\ domain' = r.domain
           /\ image' = r.image
    /\ UNCHANGED <<size_vars, grid_vars, curve_vars, project_vars, scale_vars, config_vars, reader_vars, buffer, records,
                   input, last_op, writes, written>>

Next == RejectBitsPerPixel \/ New \/ PaintAddress \/ PaintCidrRange \/ Render

Spec == Init /\ [][Next]_vars

(***************************************************************************)
(* Ingestion of a text: process_input_from_reader line by line, on a       *)
(* Heatmap just constructed.                                               *)
(***************************************************************************)
InputInit ==
    /\ SizeIdle
    /\ GridIdle
    /\ CurveIdle
    /\ ProjectIdle
    /\ ScaleIdle
    /\ pc = "ingest"
    /\ entry = "lib"
    /\ overflow_checks \in BOOLEAN
    /\ bits_per_pixel = 28
    /\ value_mode \in ValueModes
    /\ accumulate \in BOOLEAN
    /\ curve = "Linear"
    /\ min_value = None
    /\ max_value = None
    /\ buffer = new_buffer(bits_per_pixel, value_mode)
    /\ records = 0
    /\ input = <<>>
    /\ last_op = NoRecord
    /\ writes = <<>>
    /\ written = <<>>
    /\ failure = "none"
    /\ domain = None
    /\ image = <<>>
    /\ ReaderIdle

\* One iteration of the loop of process_input_from_reader, on the next
\* line of the text.  A text holds each of its lines once.
ProcessLine ==
    /\ pc = "ingest"
    /\ Len(text) < MaxLines
    /\ \E line \in InputLines :
         LET o == process_line(buffer, Len(text), line)
             painted == o.flow = "paint"
         IN  /\ \A i \in DOMAIN text : text[i] # line
             /\ text' = Append(text, line)
             /\ buffer' = o.buffer
             /\ writes' = o.writes
             /\ written' = written \o o.writes
             /\ last_op' = o.record
             /\ records' = IF painted THEN records + 1 ELSE records
             /\ input' = IF painted THEN Append(input, o.record) ELSE input
             /\ warnings' = IF o.warning = None THEN warnings
                            ELSE Append(warnings, o.warning[1])
             /\ error' = o.error
             /\ failure' = IF o.panic # "none" THEN o.panic
                           ELSE IF o.error # None THEN "parse" ELSE "none"
             /\ pc' = IF o.panic # "none" THEN "panic"
                      ELSE IF o.error # None THEN "parse_error" ELSE "ingest"
    /\ UNCHANGED <<size_vars, grid_vars, curve_vars, project_vars, scale_vars, config_vars, domain, image>>

\* The end of the text: process_input_from_reader returns Ok.
EndOfInput ==
    /\ pc = "ingest"
    /\ pc' = "ingested"
    /\ UNCHANGED <<size_vars, grid_vars, curve_vars, project_vars, scale_vars, config_vars, reader_vars,
                   buffer, records, input, last_op, writes, written, failure,
                   domain, image>>

InputNext == ProcessLine \/ EndOfInput

SpecInput == InputInit /\ [][InputNext]_vars

(***************************************************************************)
(* The grid of a granularity, measured row by row: each pixel stands for   *)
(* 2^bits_per_pixel consecutive addresses.                                 *)
(***************************************************************************)
\* The granularities measured: every bits_per_pixel from the smallest the
\* coverage test takes to the largest image_size_for_bpp accepts.
MinBitsPerPixel == 8

MaxBitsPerPixel == 32

GridInit ==
    /\ SizeIdle
    /\ CurveIdle
    /\ ProjectIdle
    /\ ScaleIdle
    /\ SessionIdle
    /\ g_bpp \in MinBitsPerPixel..MaxBitsPerPixel
    /\ g_side = image_size_for_bpp(g_bpp)
    /\ g_rows = 0
    /\ g_cover = U64(0)

\* One more row of side pixels, of ips_per_pixel = 1 << bpp addresses each.
GridRow ==
    /\ g_rows < g_side
    /\ g_rows' = g_rows + 1
    /\ g_cover' = Add(g_cover, Shl(U64(g_side), g_bpp))
    /\ UNCHANGED <<size_vars, g_bpp, g_side, curve_vars, project_vars, scale_vars, session_vars>>

SpecGrid == GridInit /\ [][GridRow]_vars

(***************************************************************************)
(* The sizes of a Heatmap: those of the buffer Heatmap::new allocates, of  *)
(* the image of create_image and of the data of get_rgba_data, which is    *)
(* followed row by row.                                                    *)
(***************************************************************************)
\* The largest bits_per_pixel whose sizes are taken (the size tests stop
\* there; the smallest is that of the coverage test).
MaxSizedBitsPerPixel == 24

\* The mutation of rgba_row_bytes that pushes three bytes for each pixel.
rgba_row_bytes_rgb(image_size) == 3 * image_size

\* The bytes the loop over x pushes for one row: four for each pixel, in
\* either arm of the match.
rgba_row_bytes(image_size) == 4 * image_size

SizeInit ==
    /\ CurveIdle
    /\ ProjectIdle
    /\ ScaleIdle
    /\ SessionIdle
    /\ GridIdle
    /\ z_bpp \in MinBitsPerPixel..MaxSizedBitsPerPixel
    /\ z_buffer = <<image_size_for_bpp(z_bpp), image_size_for_bpp(z_bpp)>>
    /\ z_image = None
    /\ z_y = 0
    /\ z_data = 0
    /\ z_pc = "new"

\* create_image on the Heatmap: an image of image_size() by image_size().
CreateImage ==
    /\ z_pc = "new"
    /\ z_image = None
    /\ z_image' = Some(<<image_size_for_bpp(z_bpp), image_size_for_bpp(z_bpp)>>)
    /\ UNCHANGED <<z_bpp, z_buffer, z_y, z_data, z_pc,
                   curve_vars, project_vars, scale_vars, session_vars, grid_vars>>

\* get_rgba_data is called: the data is empty.
GetRgbaData ==
    /\ z_pc = "new"
    /\ z_pc' = "rgba"
    /\ UNCHANGED <<z_bpp, z_buffer, z_image, z_y, z_data,
                   curve_vars, project_vars, scale_vars, session_vars, grid_vars>>

\* In raw and scaled mode create_image and get_rgba_data first compute the
\* domain, and return its error when the buffer has no valid one: there is
\* then no image and no data.
DomainError ==
    /\ z_pc = "new"
    /\ z_image = None
    /\ z_pc' = "render_error"
    /\ UNCHANGED <<z_bpp, z_buffer, z_image, z_y, z_data,
                   curve_vars, project_vars, scale_vars, session_vars, grid_vars>>

\* One turn of `for y in 0..image_size`: the row y of the buffer is read
\* and its pixels pushed.
RgbaRow ==
    /\ z_pc = "rgba"
    /\ z_y < image_size_for_bpp(z_bpp)
    /\ z_y < z_buffer[1]
    /\ z_y' = z_y + 1
    /\ z_data' = z_data + rgba_row_bytes(image_size_for_bpp(z_bpp))
    /\ UNCHANGED <<z_bpp, z_buffer, z_image, z_pc,
                   curve_vars, project_vars, scale_vars, session_vars, grid_vars>>

\* The loop is over: get_rgba_data returns the data.
RgbaReturn ==
    /\ z_pc = "rgba"
    /\ ~(z_y < image_size_for_bpp(z_bpp))
    /\ z_pc' = "returned"
    /\ UNCHANGED <<z_bpp, z_buffer, z_image, z_y, z_data,
                   curve_vars, project_vars, scale_vars, session_vars, grid_vars>>

SizeNext == CreateImage \/ GetRgbaData \/ DomainError \/ RgbaRow \/ RgbaReturn

SpecSize == SizeInit /\ [][SizeNext]_vars

(***************************************************************************)
(* The command-line Heatmap (main.rs): a buffer of IMAGE_SIZE rows of      *)
(* IMAGE_SIZE cells whatever bits_per_pixel is.  Of this buffer the model  *)
(* keeps the cells written; every other cell holds 0.                      *)
(***************************************************************************)
IMAGE_SIZE == 4096

\* The granularities given with -z: the default 8, one finer, one coarser,
\* an odd one and the coarsest.
CliBitsPerPixelValues == {6, 7, 8, 10, 32}

CliAddresses ==
    { [kind |-> "address", addr |-> <<10, 0, 0, 0>>, prefix_len |-> 32, value |-> 1],
      [kind |-> "address", addr |-> <<63, 255, 255, 255>>, prefix_len |-> 32, value |-> 5],
      [kind |-> "address", addr |-> <<64, 0, 0, 0>>, prefix_len |-> 32, value |-> 1],
      [kind |-> "address", addr |-> <<255, 255, 255, 255>>, prefix_len |-> 32, value |-> 1] }

CliRanges ==
    { [kind |-> "cidr", addr |-> <<10, 0, 0, 0>>, prefix_len |-> 24, value |-> 512],
      [kind |-> "cidr", addr |-> <<192, 168, 0, 0>>, prefix_len |-> 22, value |-> 64] }

cli_cell(buf, x, y) ==
    IF y \in DOMAIN buf /\ x \in DOMAIN buf[y] THEN buf[y][x] ELSE 0

cli_store(buf, x, y, v) ==
    [yy \in DOMAIN buf \cup {y} |->
        [xx \in (IF yy \in DOMAIN buf THEN DOMAIN buf[yy] ELSE {})
                    \cup (IF yy = y THEN {x} ELSE {}) |->
            IF yy = y /\ xx = x THEN v ELSE buf[yy][xx]]]

\* Heatmap::paint_pixel of main.rs: indexing outside the buffer panics in
\* every build.
cli_paint_pixel(buf, x, y, value) ==
    IF ~(y < IMAGE_SIZE /\ x < IMAGE_SIZE)
    THEN [panic |-> "index_out_of_bounds", buffer |-> buf]
    ELSE IF accumulate
    THEN LET r == i32_add(cli_cell(buf, x, y), value)
         IN  IF r.panic # "none"
             THEN [panic |-> r.panic, buffer |-> buf]
             ELSE [panic |-> "none", buffer |-> cli_store(buf, x, y, r.val)]
    ELSE [panic |-> "none", buffer |-> cli_store(buf, x, y, value)]

\* The address arm of process_input of main.rs: the value is painted as it
\* is.  calls holds the (x, y) passed to paint_pixel.
cli_paint_address(buf, addr, value) ==
    LET p == ip_to_xy(u32_from_octets(addr))
        r == cli_paint_pixel(buf, p.xy[1], p.xy[2], value)
    IN  IF p.panic # "none"
        THEN [panic |-> p.panic, buffer |-> buf, writes |-> <<>>, calls |-> <<>>]
        ELSE [panic |-> r.panic, buffer |-> r.buffer,
              writes |-> IF r.panic = "none"
                         THEN <<[x |-> p.xy[1], y |-> p.xy[2], value |-> value]>>
                         ELSE <<>>,
              calls |-> <<p.xy>>]

\* The loop of paint_cidr_range of main.rs from pixel_d on: the value is
\* always scaled by the overlap.
RECURSIVE cli_cidr_loop(_, _, _, _, _, _)
cli_cidr_loop(st, pixel_d, last_pixel_d, first_ip, last_ip, value) ==
    IF pixel_d > last_pixel_d \/ st.panic # "none"
    THEN st
    ELSE
      LET ips_per_pixel == Shl(U64(1), bits_per_pixel)
          pixel_first_ip == Shl(U64(pixel_d), bits_per_pixel)
          pixel_last_ip == Sub(Add(pixel_first_ip, ips_per_pixel), U64(1))
          overlap_first == Max(first_ip, pixel_first_ip)
          overlap_last == Min(last_ip, pixel_last_ip)
          overlap_count == Add(Sub(overlap_last, overlap_first), U64(1))
          scaled_value == scaled_range_value(value, overlap_count)
          p == ip_to_xy(as_u32(pixel_first_ip))
          r == cli_paint_pixel(st.buffer, p.xy[1], p.xy[2], scaled_value)
          next ==
              IF ~Le(overlap_first, overlap_last)
              THEN st
              ELSE IF p.panic # "none"
              THEN [st EXCEPT !.panic = p.panic]
              ELSE IF r.panic # "none"
              THEN [st EXCEPT !.panic = r.panic, !.calls = Append(st.calls, p.xy)]
              ELSE [panic |-> "none", buffer |-> r.buffer,
                    writes |-> Append(st.writes,
                        [x |-> p.xy[1], y |-> p.xy[2], value |-> scaled_value]),
                    calls |-> Append(st.calls, p.xy)]
      IN  cli_cidr_loop(next, pixel_d + 1, last_pixel_d, first_ip, last_ip, value)

cli_paint_cidr_range(buf, cidr, value) ==
    LET first_ip == cidr_network(cidr)
        last_ip == cidr_broadcast(cidr)
    IN  cli_cidr_loop([panic |-> "none", buffer |-> buf, writes |-> <<>>,
                       calls |-> <<>>],
                      ToInt(Shr(first_ip, bits_per_pixel)),
                      ToInt(Shr(last_ip, bits_per_pixel)),
                      first_ip, last_ip, value)

CliInit ==
    /\ CurveIdle
    /\ ScaleIdle
    /\ GridIdle
    /\ SizeIdle
    /\ ReaderIdle
    /\ pc = "ingest"
    /\ entry = "cli"
    /\ overflow_checks \in BOOLEAN
    /\ bits_per_pixel \in CliBitsPerPixelValues
    /\ value_mode = "Raw"
    /\ curve = "Linear"
    /\ accumulate \in BOOLEAN
    /\ min_value = None
    /\ max_value = None
    /\ buffer = <<>>
    /\ records = 0
    /\ input = <<>>
    /\ last_op = NoRecord
    /\ writes = <<>>
    /\ written = <<>>
    /\ failure = "none"
    /\ domain = None
    /\ image = <<>>
    /\ p_addr = <<0, 0, 0, 0>>
    /\ p_xy = <<>>

\* The effect of one line of process_input of main.rs with outcome r.
\* p_xy holds the (x, y) of the calls of paint_pixel the line made.
CliPainted(rec, r) ==
    /\ buffer' = r.buffer
    /\ writes' = r.writes
    /\ written' = written \o r.writes
    /\ last_op' = rec
    /\ records' = records + 1
    /\ input' = Append(input, rec)
    /\ failure' = r.panic
    /\ pc' = IF r.panic = "none" THEN "ingest" ELSE "panic"
    /\ p_addr' = rec.addr
    /\ p_xy' = r.calls
    /\ UNCHANGED <<curve_vars, scale_vars, grid_vars, size_vars, config_vars,
                   reader_vars, domain, image>>

CliPaintAddress ==
    /\ pc = "ingest"
    /\ records < MaxRecords
    /\ \E rec \in CliAddresses :
         /\ ~Presented(rec)
         /\ CliPainted(rec, cli_paint_address(buffer, rec.addr, rec.value))

CliPaintCidrRange ==
    /\ pc = "ingest"
    /\ records < MaxRecords
    /\ \E rec \in CliRanges :
         /\ ~Presented(rec)
         /\ CliPainted(rec, cli_paint_cidr_range(buffer, rec, rec.value))

CliNext == CliPaintAddress \/ CliPaintCidrRange

SpecCli == CliInit /\ [][CliNext]_vars

(***************************************************************************)
(* Claims about hilbert_d2xy, checked under SpecCurve.                     *)
(***************************************************************************)

\* C1: for every order and every distance d in [0, 4^order), hilbert_d2xy
\* returns a point (x, y) with x < 2^order and y < 2^order.
C1_PointInGrid ==
    /\ c_pt[1] >= 0 /\ c_pt[1] < 2 ^ c_order
    /\ c_pt[2] >= 0 /\ c_pt[2] < 2 ^ c_order

C1_Witness == c_order = 3 /\ c_d = 63 /\ c_pt = <<7, 0>>

\* C2: for a fixed order, hilbert_d2xy on [0, 4^order) is a bijection onto
\* the grid: the distances 0..d give d + 1 different points, and once every
\* distance is mapped the points are the whole grid.
C2_Bijection ==
    /\ Cardinality(c_image) = c_d + 1
    /\ c_d = 4 ^ c_order - 1 =>
          c_image = (0..(2 ^ c_order - 1)) \X (0..(2 ^ c_order - 1))

C2_Witness ==
    /\ c_order = 2 /\ c_d = 15
    /\ c_image = (0..3) \X (0..3)

\* C3: for order >= 1, the points of consecutive distances d - 1 and d
\* differ by exactly 1 in exactly one coordinate and agree in the other.
C3_Adjacent ==
    c_d >= 1 => Abs(c_pt[1] - c_prev[1]) + Abs(c_pt[2] - c_prev[2]) = 1

C3_Witness ==
    /\ c_order = 3 /\ c_d = 32
    /\ c_prev = <<3, 4>> /\ c_pt = <<4, 4>>

(***************************************************************************)
(* Claims about ScaleDomain, checked under SpecScale.                      *)
(***************************************************************************)

\* C16: for both kinds and every valid domain, scale(value) is no value for
\* value <= min (min included), exactly 1.0 for value >= max (max included),
\* and some value for min < value < max.
C16_ScaleBoundaries ==
    (s_new # None /\ s_new.ok) =>
        /\ s_new.min < s_new.max
        /\ s_value <= s_new.min => s_result = None
        /\ s_value >= s_new.max =>
              s_result = Some(One) /\ f64_value(s_result[1]) = 10000
        /\ (s_new.min < s_value /\ s_value < s_new.max) => s_result # None

C16_Witness ==
    /\ s_new = [ok |-> TRUE, domain_type |-> "Logarithmic", min |-> 0, max |-> 4]
    /\ s_value = 0 /\ s_result = None

\* C17: for both kinds, on min < value < max the result is
\* (value - min) / (max - min) for linear and
\* ln(value - min + 1) / ln(max - min + 1) for logarithmic, lies strictly
\* between 0 and 1, and is greater than the result for value - 1 when that
\* is in the interval too.
C17_ScaleInterior ==
    (s_new # None /\ s_new.ok /\ s_new.min < s_value /\ s_value < s_new.max) =>
        LET offset == s_value - s_new.min
            range == s_new.max - s_new.min
        IN  /\ s_result =
                  IF s_new.domain_type = "Linear"
                  THEN Some(Quot(U64(offset), U64(range)))
                  ELSE Some(LnQuot(U64(offset + 1), U64(range + 1)))
            /\ 0 < f64_value(s_result[1])
            /\ f64_value(s_result[1]) < 10000
            /\ s_value - 1 > s_new.min =>
                  /\ s_prev # None
                  /\ f64_value(s_prev[1]) < f64_value(s_result[1])

C17_Witness ==
    /\ s_new = [ok |-> TRUE, domain_type |-> "Logarithmic", min |-> -2, max |-> 7]
    /\ s_value = 0
    /\ s_prev = Some(LnQuot(U64(2), U64(10)))
    /\ s_result = Some(LnQuot(U64(3), U64(10)))
    /\ f64_value(s_prev[1]) = 3010 /\ f64_value(s_result[1]) = 4771

(***************************************************************************)
(* Claims about the address projection, checked under SpecProject.         *)
(***************************************************************************)

\* C4: at granularity 8 every address is placed in the quadrant its top two
\* bits select: 0.0.0.0/2 top-left (x < 2048, y < 2048), 64.0.0.0/2
\* lower-left (x < 2048, y >= 2048), 128.0.0.0/2 lower-right (x >= 2048,
\* y >= 2048), 192.0.0.0/2 top-right (x >= 2048, y < 2048).
C4_Quadrant ==
    pc = "project" =>
        LET top == p_addr[1] \div 64
            x == p_xy[1]
            y == p_xy[2]
        IN  /\ top = 0 => x < 2048 /\ y < 2048
            /\ top = 1 => x < 2048 /\ y >= 2048
            /\ top = 2 => x >= 2048 /\ y >= 2048
            /\ top = 3 => x >= 2048 /\ y < 2048

C4_Witness ==
    /\ pc = "project" /\ bits_per_pixel = 8
    /\ p_addr = <<192, 0, 0, 0>>
    /\ p_xy = <<4095, 2047>>

(***************************************************************************)
(* Claims about a rendering session, checked under Spec.                   *)
(***************************************************************************)

\* The curve order of the session's granularity.
SessionOrder == (32 - bits_per_pixel) \div 2

\* The pixel of distance d (an integer) at the session's granularity.
PixelOf(d) == hilbert_d2xy(U64(d), SessionOrder)

\* C5: for every granularity with (32 - bitsPerPixel) even, 32 included,
\* and every address, paint_address completes without failure and writes
\* exactly the pixel hilbert_d2xy(address >> bitsPerPixel, order).
C5_PaintAddressPixel ==
    (pc \in {"ingest", "panic"} /\ last_op.kind = "address"
        /\ (32 - bits_per_pixel) % 2 = 0) =>
        LET d == Shr(u32_from_octets(last_op.addr), bits_per_pixel)
            xy == hilbert_d2xy(d, SessionOrder)
        IN  /\ failure = "none"
            /\ Len(writes) = 1
            /\ <<writes[1].x, writes[1].y>> = xy

\* C6: a session whose bitsPerPixel makes (32 - bitsPerPixel) odd or
\* negative is rejected at construction: no Heatmap and no buffer exist
\* for it.
C6_OddGranularityRejected ==
    ((32 - bits_per_pixel) % 2 # 0 \/ bits_per_pixel > 32) =>
        /\ buffer = <<>>
        /\ pc \in {"new", "config_error"}

\* C7: every configuration error, explicit domain bounds with max <= min
\* included, is reported before any record is processed: when it is
\* reported no cell has been written.
C7_ConfigErrorBeforeInput ==
    (\/ pc = "config_error"
     \/ /\ pc = "render_error"
        /\ min_value # None /\ max_value # None
        /\ max_value[1] <= min_value[1]) =>
        /\ records = 0
        /\ written = <<>>

\* The number k with n = 2^k addresses of the record last painted falling in
\* each pixel it touches: 0 for an address; for a block of 2^h addresses,
\* which is aligned, a whole pixel (k = bitsPerPixel) or the block (k = h).
OverlapBits ==
    IF last_op.kind = "address" THEN 0
    ELSE LET h == 32 - last_op.prefix_len
         IN  IF h < bits_per_pixel THEN h ELSE bits_per_pixel

\* V * 2^k / 2^bitsPerPixel rounded toward zero and toward minus infinity,
\* for |V| < 2^31.
ScaledTowardZero(V, k) ==
    LET e == bits_per_pixel - k
    IN  IF e >= 31 THEN 0
        ELSE IF V < 0 THEN -((-V) \div (2 ^ e)) ELSE V \div (2 ^ e)

ScaledFloor(V, k) ==
    LET e == bits_per_pixel - k
    IN  IF e >= 31 THEN (IF V < 0 THEN -1 ELSE 0)
        ELSE IF V < 0 THEN -(((-V) + (2 ^ e) - 1) \div (2 ^ e)) ELSE V \div (2 ^ e)

C9_OneWritePerPixelDistance ==
    (pc \in {"ingest", "panic"} /\ last_op.kind = "cidr") =>
        LET first_d == ToInt(Shr(cidr_network(last_op), bits_per_pixel))
            last_d == ToInt(Shr(cidr_broadcast(last_op), bits_per_pixel))
        IN  /\ failure = "none"
            /\ Len(writes) = last_d - first_d + 1
            /\ \A i \in 1..Len(writes) :
                  <<writes[i].x, writes[i].y>> = PixelOf(first_d + i - 1)

RECURSIVE OffsetSum(_)
OffsetSum(ws) ==
    IF ws = <<>> THEN U64(0) ELSE Add(Offset(Head(ws).value), OffsetSum(Tail(ws)))

\* The writes of the session to the cell (x, y), in input order.
WritesTo(x, y) == SelectSeq(written, LAMBDA w : w.x = x /\ w.y = y)

InitValue == IF value_mode = "Categorical" THEN -1 ELSE 0

\* C10: after any sequence of paint operations each cell holds, with
\* accumulate, its initial value plus the sum of the weights written to it,
\* and without, the weight last written to it (its initial value if none).
C10_CellContents ==
    pc \in {"ingest", "panic", "rendered", "render_error"} =>
        \A y \in DOMAIN buffer : \A x \in DOMAIN buffer[y] :
            LET ws == WritesTo(x, y)
            IN  IF accumulate
                THEN Add(Offset(buffer[y][x]), <<32768 * Len(ws), 0>>) =
                         Add(Offset(InitValue), OffsetSum(ws))
                ELSE buffer[y][x] =
                         IF ws = <<>> THEN InitValue ELSE ws[Len(ws)].value

\* The orders in which the records of a sequence can be presented.
Orders(recs) ==
    LET n == Len(recs)
        perms == {f \in [1..n -> 1..n] : \A i, j \in 1..n : f[i] = f[j] => i = j}
    IN  {[i \in 1..n |-> recs[f[i]]] : f \in perms}

\* The outcome of ingesting recs into a new buffer: whether ingestion
\* completes, and the buffer it leaves.
Outcome(recs) ==
    LET r == process_records(
                 [panic |-> "none", buffer |-> new_buffer(bits_per_pixel, value_mode)],
                 recs)
    IN  [completed |-> r.panic = "none", buffer |-> r.buffer]

\* C11: with accumulate the outcome of ingesting the records (the final
\* buffer and whether ingestion completes) is the same in every order of
\* the records; without, every written cell holds the weight of the last
\* write to it in input order.
C11_OrderIndependent ==
    pc \in {"ingest", "panic"} =>
        IF accumulate
        THEN \A recs \in Orders(input) :
                 Outcome(recs) = [completed |-> pc = "ingest", buffer |-> buffer]
        ELSE \A i \in 1..Len(written) :
                 (\A j \in (i + 1)..Len(written) :
                      ~(written[j].x = written[i].x /\ written[j].y = written[i].y))
                 => buffer[written[i].y][written[i].x] = written[i].value

\* Whether the session painted only addresses, with categories >= 0, each on
\* a pixel of its own, and rendered.
CategoriesPainted ==
    /\ pc = "rendered" /\ value_mode = "Categorical"
    /\ \A i \in 1..Len(input) : input[i].kind = "address" /\ input[i].value >= 0
    /\ Len(written) = Len(input)
    /\ \A i, j \in 1..Len(written) :
          (written[i].x = written[j].x /\ written[i].y = written[j].y) => i = j

\* Whether every cell no write went to holds the sentinel -1 and is
\* transparent in the image.
UnpaintedTransparent ==
    \A y \in DOMAIN buffer : \A x \in DOMAIN buffer[y] :
        WritesTo(x, y) = <<>> => buffer[y][x] = -1 /\ image[y][x] = Transparent

\* C12 as stated: in Categorical mode, with or without accumulate, after
\* painting addresses on distinct pixels with categories c >= 0, unpainted
\* cells hold -1 and are transparent and every painted cell is opaque with
\* palette entry c mod 8.
C12_PaletteOfCategory ==
    CategoriesPainted =>
        /\ UnpaintedTransparent
        /\ \A i \in 1..Len(written) :
              image[written[i].y][written[i].x] =
                  Opaque(<<"palette", written[i].value % 8>>)

\* C12, amended: as stated without accumulate; with accumulate a cell
\* painted with category c holds c - 1, so it is transparent for c = 0 and
\* opaque with palette entry (c - 1) mod 8 for c >= 1.
C12_PaletteOfCell ==
    CategoriesPainted =>
        /\ UnpaintedTransparent
        /\ \A i \in 1..Len(written) :
              LET c == written[i].value
                  v == IF accumulate THEN c - 1 ELSE c
              IN  /\ buffer[written[i].y][written[i].x] = v
                  /\ image[written[i].y][written[i].x] =
                        IF v < 0 THEN Transparent
                        ELSE Opaque(<<"palette", v % 8>>)

C12_Witness ==
    /\ CategoriesPainted /\ accumulate /\ bits_per_pixel = 24
    /\ Len(input) = 2
    /\ \E i \in 1..2 : written[i].value = 0 /\ <<written[i].x, written[i].y>> = PixelOf(64)
    /\ image[PixelOf(64)[2]][PixelOf(64)[1]] = Transparent
    /\ image[3][3] = Opaque(<<"palette", 6>>)

\* C13: in Raw and Scaled mode with auto-computed bounds, whatever the
\* signs of the weights, every cell that was never painted is transparent in
\* the image, and so is every cell whose value scales to no value.
C13_UnpaintedTransparent ==
    (/\ pc = "rendered" /\ value_mode # "Categorical"
     /\ min_value = None /\ max_value = None) =>
        \A y \in DOMAIN buffer : \A x \in DOMAIN buffer[y] :
            /\ WritesTo(x, y) = <<>> => image[y][x] = Transparent
            /\ scale(domain[1], buffer[y][x]) = None => image[y][x] = Transparent

\* Whether v is the least (greatest) value over every cell of the buffer.
LeastCell(v) ==
    /\ \E y \in DOMAIN buffer : \E x \in DOMAIN buffer[y] : buffer[y][x] = v
    /\ \A y \in DOMAIN buffer : \A x \in DOMAIN buffer[y] : buffer[y][x] >= v

GreatestCell(v) ==
    /\ \E y \in DOMAIN buffer : \E x \in DOMAIN buffer[y] : buffer[y][x] = v
    /\ \A y \in DOMAIN buffer : \A x \in DOMAIN buffer[y] : buffer[y][x] <= v

UniformBuffer ==
    \A y \in DOMAIN buffer : \A x \in DOMAIN buffer[y] : buffer[y][x] = buffer[0][0]

LastToken == line_parts(text[Len(text)])[1]

\* C18: a line whose plain address or bare integer token is malformed ends
\* ingestion with an error that carries the 1-based number of the line and
\* the token.
C18_FatalCarriesLineAndToken ==
    pc = "parse_error" =>
        /\ error # None
        /\ error[1].line = Some(Len(text))
        /\ error[1].token = Some(LastToken)

\* Whether the loop takes line without painting or failing: it has no
\* token, or its first token holds a slash and is not a range.
SkippedLine(line) ==
    LET parts == line_parts(line)
    IN  \/ parts = <<>>
        \/ contains(parts[1], "/") /\ Ipv4Net_from_str(parts[1]) = None

\* The text without its skipped lines.
Kept(lines) == SelectSeq(lines, LAMBDA l : ~SkippedLine(l))

\* C19: an empty line and a line with a malformed range token leave the
\* buffer as it is and do not stop ingestion: after any text, the buffer
\* and whether ingestion goes on are those of the text without these
\* lines, and right after such a line ingestion goes on with no cell
\* written.
C19_SkippedLinesLeaveNoTrace ==
    (pc \in {"ingest", "ingested", "parse_error", "panic"} /\ text # <<>>) =>
        LET st == process_input_from_reader(
                      [buffer |-> new_buffer(bits_per_pixel, value_mode),
                       panic |-> "none", error |-> None], 0, Kept(text))
        IN  /\ buffer = st.buffer
            /\ (pc \in {"ingest", "ingested"}) <=> (st.error = None /\ st.panic = "none")
            /\ (error = None) <=> (st.error = None)
            /\ SkippedLine(text[Len(text)]) =>
                  /\ pc \in {"ingest", "ingested"}
                  /\ writes = <<>>

C19_Witness ==
    /\ pc = "ingested"
    /\ text = <<<<"1", "0", ".", "0", ".", "0", "/", "8", " ", "3">>, <<>>, <<"1", "0", ".", "0", ".", "0", ".", "0", " ", "7">>>>
    /\ Len(warnings) = 1
    /\ records = 1
    /\ buffer # new_buffer(bits_per_pixel, value_mode)

(***************************************************************************)
(* Claims about the grid, checked under SpecGrid.                          *)
(***************************************************************************)
\* The size of the address space, 2^32.
AddressSpace == Shl(U64(1), 32)

\* C20: for every even bits_per_pixel of [8, 32] the side of the grid
\* satisfies side * side * 2^bits_per_pixel = 2^32, the product being the
\* sum over the side rows of side * 2^bits_per_pixel: the rows counted so
\* far stand for fewer than 2^32 addresses, and all the rows for exactly
\* 2^32.
C20_Coverage ==
    g_bpp % 2 = 0 =>
        /\ g_rows < g_side => Lt(g_cover, AddressSpace)
        /\ g_rows = g_side => g_cover = AddressSpace

C20_Witness ==
    /\ g_bpp = 8
    /\ g_side = 4096
    /\ g_rows = g_side
    /\ g_cover = AddressSpace

(***************************************************************************)
(* Claims about the sizes of a Heatmap, checked under SpecSize.            *)
(***************************************************************************)
\* side = 2^((32 - bitsPerPixel) / 2).
SideOf(bpp) == 2 ^ ((32 - bpp) \div 2)

\* C21: for every even bits_per_pixel of [8, 24] the buffer has side rows
\* of side cells, the image of create_image is side by side, the data
\* get_rgba_data returns has 4 * side * side bytes, and every larger
\* bits_per_pixel of the range has a strictly smaller side.
C21_Sizes ==
    (z_pc # "idle" /\ z_bpp % 2 = 0) =>
        /\ z_buffer = <<SideOf(z_bpp), SideOf(z_bpp)>>
        /\ z_image # None => z_image = Some(<<SideOf(z_bpp), SideOf(z_bpp)>>)
        /\ z_pc = "returned" => z_data = 4 * SideOf(z_bpp) * SideOf(z_bpp)
        /\ z_pc = "rgba" => z_data = 4 * SideOf(z_bpp) * z_y
        /\ \A b \in (z_bpp + 1)..MaxSizedBitsPerPixel :
              b % 2 = 0 => image_size_for_bpp(b) < z_buffer[1]

C21_Witness ==
    /\ z_bpp = 8
    /\ z_buffer = <<4096, 4096>>
    /\ z_image = Some(<<4096, 4096>>)
    /\ z_pc = "returned"
    /\ z_data = 67108864

(***************************************************************************)
(* Claims about the command-line Heatmap, checked under SpecCli.           *)
(***************************************************************************)
\* C22: every (x, y) passed to paint_pixel lies inside the buffer, of
\* IMAGE_SIZE rows of IMAGE_SIZE cells in the command-line Heatmap.
C22_WriteInsideBuffer ==
    entry = "cli" =>
        /\ failure # "index_out_of_bounds"
        /\ \A i \in DOMAIN p_xy :
              p_xy[i][1] < IMAGE_SIZE /\ p_xy[i][2] < IMAGE_SIZE

(***************************************************************************)
(* Claims about the overlap of a block with the pixels, checked under Spec.*)
(***************************************************************************)
\* The pixels paint_cidr_range goes through for the block cidr.
OverlapsOf(cidr) ==
    cidr_overlaps(ToInt(Shr(cidr_network(cidr), bits_per_pixel)),
                  ToInt(Shr(cidr_broadcast(cidr), bits_per_pixel)),
                  cidr_network(cidr), cidr_broadcast(cidr))

RECURSIVE SumOfCounts(_)
SumOfCounts(o) ==
    IF o = <<>> THEN U64(0) ELSE Add(Head(o).overlap_count, SumOfCounts(Tail(o)))

\* The overlaps of the block painted last are as C23 states: the test is
\* true for every pixel gone through, the counts sum to the size of the
\* block, and the block lies in one pixel or is made of whole pixels.
BlockOverlaps ==
    LET o == OverlapsOf(last_op)
        block == Shl(U64(1), 32 - last_op.prefix_len)
    IN  /\ \A i \in DOMAIN o : o[i].overlaps
        /\ SumOfCounts(o) = block
        /\ IF last_op.prefix_len >= 32 - bits_per_pixel
           THEN Len(o) = 1 /\ o[1].overlap_count = block
           ELSE \A i \in DOMAIN o :
                    o[i].overlap_count = Shl(U64(1), bits_per_pixel)

\* C23: paint_cidr_range touches one pixel with an overlap count equal to
\* the size of the block, or only whole pixels with 2^bits_per_pixel each;
\* the overlap test is true for every pixel gone through and the counts sum
\* to the size of the block; in scaled mode a block of whole pixels writes
\* exactly V to each of them.
C23_BlockTouchesItsPixels ==
    last_op.kind = "cidr" =>
        /\ BlockOverlaps
        /\ Len(writes) = Len(OverlapsOf(last_op))
        /\ (value_mode = "Scaled" /\ last_op.prefix_len <= 32 - bits_per_pixel) =>
              \A i \in DOMAIN writes : writes[i].value = last_op.value

====
